---- MODULE Spec2Model ----
(***************************************************************************)
(* imagepile: a block-deduplicating store for disk images.                 *)
(*                                                                         *)
(* The model follows imagepile.c (the first program of                     *)
(* src/tools/extract_index_hashes.sh, lines 11-647) and imagepile.h        *)
(* (src/imagepile.h, lines 71-146).  One process runs at a time; a run is  *)
(* "add" (input_image) or "read" (output_original).  The block database,   *)
(* the hash index and the files named on the command line outlive the      *)
(* process, everything else is process memory.                             *)
(*                                                                         *)
(* Sizes are scaled down: a block is B_SIZE = 2 bytes instead of 4096, a   *)
(* byte is 0 or 1, a hash is 2 bits wide with a 1 bit head, a leaf holds 2 *)
(* nodes instead of 64.  The image file is modelled word by word: one      *)
(* element per 4-byte field (signature, start offset, end size, offsets).  *)
(* A stream is modelled by the content it has once flushed: every exit()   *)
(* flushes all streams, and read_db_block flushes the database first.      *)
(*                                                                         *)
(* The environment: the input is a file or stdin, the image file of an add *)
(* run is a file or a pipe on stdout, signals arrive at any step.  Writes  *)
(* to the database and the index and allocations of leaves succeed.        *)
(***************************************************************************)
EXTENDS Integers, Sequences, FiniteSets, TLC

\* ---------------------------------------------------------------- sizes

\* imagepile.h: #define B_SIZE 4096 (scaled)
B_SIZE == 2
\* imagepile.h: #define HDR_SIZE 12, counted in 4-byte words
HDR_SIZE == 3
\* imagepile.h: #define HASH_ALLOC_SIZE 64 (scaled)
HASH_ALLOC_SIZE == 2
\* hash_top[65536]: one bucket per value of hash_head_t (scaled)
HASH_TOP_SIZE == 2
\* HASH_HEAD(x): x >> 48 keeps the high 16 of 64 bits; here the high bit of 2
HASH_HEAD_DIV == 2
\* fread(blk, 4, B_SIZE / 4, in): offsets per read of the image file (scaled)
OFFSET_BATCH == 2
\* fread(blk, sizeof(jodyhash_t), B_SIZE / sizeof(jodyhash_t), hashindex) (scaled)
HASH_BATCH == 2
\* size /= 100: the divisor of the progress display (scaled, below B_SIZE)
PERCENT_DIV == 1
\* sizeof(jodyhash_t): the bytes of one record of the index (scaled from 8:
\* a hash is 2 bits wide and a byte holds one bit)
HASH_SIZE == 2
\* width of int and uint32_t (scaled from 32)
WORD_BITS == 4
\* fwrite("IPIL", 4, 1, out): the four bytes read as one little-endian word
IPIL == 1279873097

\* Longest input file, in bytes
MaxLen == 5
\* Most offsets in an image file given to a read run
MaxOrdinals == 3
\* Most blocks in the database a given image file is read against
MaxReadPool == 2

Byte == {0, 1}
NULL == 0
\* an indeterminate, non-null pointer: what an uninitialised field may hold
WILD == -1

Min(a, b) == IF a < b THEN a ELSE b

\* All byte strings of length at most n
RECURSIVE SeqsUpTo(_)
SeqsUpTo(n) ==
    IF n = 0 THEN {<<>>}
    ELSE LET S == SeqsUpTo(n - 1)
         IN  S \cup {Append(s, b) : s \in {t \in S : Len(t) = n - 1}, b \in Byte}

Inputs == SeqsUpTo(MaxLen)

Zeros(n) == [k \in 1..n |-> 0]

TwoTo(n) == 2 ^ n
\* (int)x
AsInt(x) ==
    LET m == x % TwoTo(WORD_BITS)
    IN  IF m >= TwoTo(WORD_BITS - 1) THEN m - TwoTo(WORD_BITS) ELSE m
\* (uint32_t)x
AsUint32(x) == x % TwoTo(WORD_BITS)

\* ---------------------------------------------------------------- hashing

RECURSIVE SumBytes(_)
SumBytes(s) == IF s = <<>> THEN 0 ELSE Head(s) + SumBytes(Tail(s))

\* jody_block_hash(blk, 0, B_SIZE): some non-injective function of the block
jody_block_hash(b) == SumBytes(b)

HASH_HEAD(x) == x \div HASH_HEAD_DIV

\* ---------------------------------------------------------------- state

VARIABLES
    db,            \* imagepile.db: the block database, a byte string
    hashindex,     \* imagepile.hash_index: a byte string, HASH_SIZE per hash
    orig,          \* the input file of the add run
    image,         \* the image file: written by add, read by read
    restored,      \* the output file of the read run
    pc,            \* where the process is; "exit" once ended, "idle" with none
    status,        \* how the last process ended
    verb,          \* argv[1]
    in_stdin,      \* files->in == stdin
    out_seek,      \* files->out can seek: a file, not a pipe on stdout
    inpos,         \* position in the input stream
    in_eof,        \* feof(files->in)
    start_offset,  \* input_image / output_original: start_offset
    end_size,      \* output_original: end_size
    cnt,           \* input_image: cnt; output_original: i
    p,             \* output_original: p, as an index into the image file
    blk,           \* input_image: blk
    final,         \* input_image: get_block_offset was called at line 354
    offset,        \* input_image: offset
    siglock,
    sigterm,
    heap,          \* the hash leaves: 1..HASH_TOP_SIZE from main, then malloc'd
    fhm,           \* find_hash_match: its static leaf, rel_offset and dirty
    head_skip,     \* the start offset given on the command line
    image_ok,      \* the image file was written by an add run that returned
    clean,         \* every add run so far ran to completion
    pool0          \* the blocks the database held when the add run started

files == <<db, hashindex, orig, image, restored>>
proc  == <<verb, in_stdin, out_seek, inpos, in_eof, start_offset, end_size, cnt, p,
           blk, final, offset>>
sig   == <<siglock, sigterm>>
look  == <<heap, fhm>>
hist  == <<head_skip, image_ok, clean, pool0>>
vars  == <<files, pc, status, proc, sig, look, hist>>

\* ---------------------------------------------------------------- files

PoolBlocks == Len(db) \div B_SIZE

\* The block at B_SIZE * o of a database d
BlockAt(d, o) == SubSeq(d, B_SIZE * o + 1, B_SIZE * o + B_SIZE)

\* read_db_block: a seek to B_SIZE * offset and a read of B_SIZE bytes succeed
CanReadBlock(d, o) == o >= 0 /\ B_SIZE * o + B_SIZE <= Len(d)

\* compare_blocks: 0 when the block at offset equals blk1, -1 otherwise
compare_blocks_trusting(blk1, o, d) == IF o < 0 THEN -1 ELSE 0
compare_blocks(blk1, o, d) ==
    IF o < 0 THEN -1
    ELSE IF BlockAt(d, o)[1] # blk1[1] THEN -1
    ELSE IF BlockAt(d, o) = blk1 THEN 0
    ELSE -1

\* add_db_block: the offset it returns, the end of the file in blocks
add_db_block_offset_after(d) == AsInt(Len(d) \div B_SIZE + 1)
add_db_block_offset(d) == AsInt(Len(d) \div B_SIZE)

\* add_db_block: the database after the write (opened "a+b": at the end)
add_db_block_in_place(d, b) ==
    IF Len(d) >= B_SIZE THEN SubSeq(d, 1, Len(d) - B_SIZE) \o b ELSE d \o b
add_db_block(d, b) == d \o b

\* main, lines 539 and 588: fopen(..., "a+b") leaves what the file holds
fopen_truncating(f) == <<>>
fopen_append(f) == f

\* main, line 560: fopen(outfile, "wb") empties the file or creates it empty
fopen_wb(f) == <<>>

\* ---------------------------------------------------------------- lookup

EmptyLeaf == [next |-> NULL, node |-> <<>>]

\* main: the 65536 leaves hash_top points to, entries = 0 and next = NULL
InitHeap == [k \in 1..HASH_TOP_SIZE |-> EmptyLeaf]

\* hash_top[h]: the leaf main stored for head h
hash_top_first(h) == 1
hash_top(h) == h + 1

InitFhm == [leaf |-> NULL, rel_offset |-> 0, dirty |-> 1]

\* find_hash_match, the scan from (leaf, rel_offset) on: the next node with
\* this hash, -1 at the end of the chain, a crash on a wild next pointer
RECURSIVE ScanLeaves(_, _, _, _)
ScanLeaves(h, leaf, rel, hash) ==
    IF rel < Len(h[leaf].node)
    THEN IF h[leaf].node[rel + 1].hash = hash
         THEN [ret |-> h[leaf].node[rel + 1].offset, crash |-> FALSE,
               st |-> [leaf |-> leaf, rel_offset |-> rel, dirty |-> 0]]
         ELSE ScanLeaves(h, leaf, rel + 1, hash)
    ELSE IF h[leaf].next = NULL
         THEN [ret |-> -1, crash |-> FALSE,
               st |-> [leaf |-> leaf, rel_offset |-> rel, dirty |-> 1]]
         ELSE IF h[leaf].next = WILD
              THEN [ret |-> -1, crash |-> TRUE,
                    st |-> [leaf |-> WILD, rel_offset |-> 0, dirty |-> 0]]
              ELSE ScanLeaves(h, h[leaf].next, 0, hash)

\* find_hash_match(hash, reset) with statics st over the leaves h
find_hash_match_leaf_end(h, st, hash, reset) ==
    IF reset # 0 \/ st.dirty # 0
    THEN ScanLeaves(h, hash_top(HASH_HEAD(hash)), 0, hash)
    ELSE IF st.rel_offset + 1 < Len(h[st.leaf].node)
         THEN ScanLeaves(h, st.leaf, st.rel_offset + 1, hash)
         ELSE [ret |-> -1, crash |-> FALSE, st |-> [st EXCEPT !.dirty = 1]]
find_hash_match(h, st, hash, reset) ==
    IF reset # 0 \/ st.dirty # 0
    THEN ScanLeaves(h, hash_top(HASH_HEAD(hash)), 0, hash)
    ELSE IF st.rel_offset < Len(h[st.leaf].node)
         THEN ScanLeaves(h, st.leaf, st.rel_offset + 1, hash)
         ELSE IF h[st.leaf].next = NULL
              THEN [ret |-> -1, crash |-> FALSE,
                    st |-> [st EXCEPT !.dirty = 1]]
              ELSE IF h[st.leaf].next = WILD
                   THEN [ret |-> -1, crash |-> TRUE,
                         st |-> [leaf |-> WILD, rel_offset |-> 0, dirty |-> 0]]
                   ELSE ScanLeaves(h, h[st.leaf].next, 0, hash)

\* index_hash, the in-memory part from leaf on: the leaves after the insert.
\* garbage is what the next field of a leaf fresh from malloc holds.
RECURSIVE InsertFrom(_, _, _, _, _)
InsertFrom(h, leaf, hash, off, garbage) ==
    LET nd == [hash |-> hash, offset |-> off]
    IN  IF Len(h[leaf].node) = HASH_ALLOC_SIZE
        THEN IF h[leaf].next = WILD
             THEN [crash |-> TRUE, heap |-> h]
             ELSE IF h[leaf].next # NULL
                  THEN InsertFrom(h, h[leaf].next, hash, off, garbage)
                  ELSE [crash |-> FALSE,
                        heap |-> Append([h EXCEPT ![leaf].next = Len(h) + 1],
                                        [next |-> garbage, node |-> <<nd>>])]
        ELSE [crash |-> FALSE,
              heap |-> [h EXCEPT ![leaf].node = Append(@, nd)]]

index_hash(h, hash, off, garbage) ==
    InsertFrom(h, hash_top(HASH_HEAD(hash)), hash, off, garbage)

\* The bytes of a hash in memory and in the index file, low byte first
HashBytes(hash) == [k \in 1..HASH_SIZE |-> (hash \div TwoTo(k - 1)) % 2]

\* The hash a record of HASH_SIZE bytes holds
RECURSIVE HashOfBytes(_)
HashOfBytes(s) == IF s = <<>> THEN 0 ELSE Head(s) + 2 * HashOfBytes(Tail(s))

\* fread(blk, sizeof(jodyhash_t), n, hashindex) over the whole file: the whole
\* records it counts, bytes after the last whole record are read and dropped
HashRecords(idx) == Len(idx) \div HASH_SIZE

\* *((jodyhash_t *)blk + offset): record k, counted from 0
HashAt(idx, k) == HashOfBytes(SubSeq(idx, HASH_SIZE * k + 1, HASH_SIZE * k + HASH_SIZE))

\* index_hash, lines 165-172: the index file after the call
index_write_skipped(idx, hash, write) == idx
index_write(idx, hash, write) == IF write # 0 THEN idx \o HashBytes(hash) ELSE idx

\* main: the offset given to the hash read as record k (from 0) of the index:
\* hashcount, which counts on from one read of HASH_BATCH hashes to the next
RebuildOffsetPerBatch(k) == AsInt(k % HASH_BATCH)
RebuildOffset(k) == AsInt(k)

\* main: read the index in and add every hash to the in-memory table.
\* wild is the set of leaves malloc returns with a non-null next field.
RECURSIVE ReadIndex(_, _, _, _)
ReadIndex(h, idx, k, wild) ==
    IF k >= HashRecords(idx) THEN [crash |-> FALSE, heap |-> h]
    ELSE LET g == IF (Len(h) + 1) \in wild THEN WILD ELSE NULL
             r == index_hash(h, HashAt(idx, k), RebuildOffset(k), g)
         IN  IF r.crash THEN r ELSE ReadIndex(r.heap, idx, k + 1, wild)

\* The leaves malloc may be asked for while idx is read in
FreshLeaves(idx) ==
    (HASH_TOP_SIZE + 1)..(HASH_TOP_SIZE + (HashRecords(idx) \div HASH_ALLOC_SIZE))

\* The (hash, offset) nodes of a bucket, leaf after leaf
RECURSIVE ChainNodes(_, _)
ChainNodes(h, leaf) ==
    IF leaf = NULL \/ leaf = WILD THEN <<>>
    ELSE h[leaf].node \o ChainNodes(h, h[leaf].next)

BucketNodes(h, b) == ChainNodes(h, hash_top(b))

\* get_block_offset, lines 259 and 266: int reset = 1 for the first call of
\* find_hash_match for a block, reset = 0 for the calls after it
search_reset_never(first) == 0
search_reset(first) == IF first THEN 1 ELSE 0

\* get_block_offset, lines 264-273: the search for a block equal to b.
\* kind is "match" (ret is its offset), "none", "crash" or "error".
RECURSIVE SearchFrom(_, _, _, _, _)
SearchFrom(h, st, b, d, reset) ==
    LET r == find_hash_match(h, st, jody_block_hash(b), reset)
    IN  IF r.crash THEN [kind |-> "crash", ret |-> -1, st |-> r.st]
        ELSE IF r.ret < 0 THEN [kind |-> "none", ret |-> -1, st |-> r.st]
        ELSE IF ~CanReadBlock(d, r.ret)
             THEN [kind |-> "error", ret |-> -1, st |-> r.st]
        ELSE IF compare_blocks(b, r.ret, d) = 0
             THEN [kind |-> "match", ret |-> AsUint32(r.ret), st |-> r.st]
        ELSE SearchFrom(h, r.st, b, d, search_reset(FALSE))

\* get_block_offset, lines 259-273: the search as a call of get_block_offset
\* starts it, the statics of find_hash_match being st
get_block_offset_search(h, st, b, d) == SearchFrom(h, st, b, d, search_reset(TRUE))

\* get_block_offset, lines 264-273, with every candidate rejected: the
\* offsets find_hash_match returns, called with reset and then without,
\* until it returns -1 or the process crashes, in at most fuel calls
RECURSIVE Candidates(_, _, _, _, _)
Candidates(h, st, hash, reset, fuel) ==
    LET r == find_hash_match(h, st, hash, reset)
    IN  IF fuel = 0 \/ r.crash \/ r.ret < 0 THEN <<>>
        ELSE <<r.ret>> \o Candidates(h, r.st, hash, 0, fuel - 1)

\* ---------------------------------------------------------------- Init

Init ==
    /\ db = <<>>
    /\ hashindex = <<>>
    /\ orig = <<>>
    /\ image = <<>>
    /\ restored = <<>>
    /\ pc = "idle"
    /\ status = "none"
    /\ verb = "none"
    /\ in_stdin = FALSE
    /\ out_seek = TRUE
    /\ inpos = 0
    /\ in_eof = FALSE
    /\ start_offset = 0
    /\ end_size = 0
    /\ cnt = 1
    /\ p = 0
    /\ blk = Zeros(B_SIZE)
    /\ final = FALSE
    /\ offset = 0
    /\ siglock = 0
    /\ sigterm = 0
    /\ heap = InitHeap
    /\ fhm = InitFhm
    /\ head_skip = 0
    /\ image_ok = FALSE
    /\ clean = TRUE
    /\ pool0 = 0

\* What a process starts with: zeroed globals, statics as initialised
FreshProc(v) ==
    /\ verb' = v
    /\ in_eof' = FALSE
    /\ cnt' = 1
    /\ p' = 0
    /\ blk' = Zeros(B_SIZE)
    /\ final' = FALSE
    /\ offset' = 0
    /\ siglock' = 0
    /\ sigterm' = 0
    /\ fhm' = InitFhm

\* memset((blk + cnt), 0, (B_SIZE - cnt))
PadBlock(buf, n) == [k \in 1..B_SIZE |-> IF k <= n THEN buf[k] ELSE 0]

\* exit() or the return from main of an add run, ending as st
ExitAdd(st) ==
    /\ pc' = "exit"
    /\ status' = st
    /\ image_ok' = (st = "success")
    /\ clean' = (clean /\ st = "success")

\* exit() or the return from main of a read run, ending as st
ExitRead(st) ==
    /\ pc' = "exit"
    /\ status' = st
    /\ UNCHANGED <<image_ok, clean>>

\* ---------------------------------------------------------------- add

\* Whether the input is stdin shows only in the progress display, and there
\* only for a file of less than PERCENT_DIV bytes
StdinChoices(x) == IF Len(x) < PERCENT_DIV THEN BOOLEAN ELSE {FALSE}

\* main for "add", lines 502-607, and input_image up to its loop: open the
\* files, read the index in, write the image header
StartAdd ==
    /\ pc = "idle"
    /\ \E x \in Inputs, hs \in 0..(B_SIZE - 1), seek \in BOOLEAN,
          wild \in SUBSET FreshLeaves(hashindex) : \E sin \in StdinChoices(x) :
          LET r == ReadIndex(InitHeap, fopen_append(hashindex), 0, wild)
          IN  /\ orig' = x
              /\ head_skip' = hs
              /\ in_stdin' = sin
              /\ out_seek' = seek
              /\ start_offset' = hs
              /\ heap' = r.heap
              /\ IF r.crash
                 THEN /\ image' = <<>>
                      /\ pc' = "exit"
                      /\ status' = "crash"
                      /\ clean' = FALSE
                 ELSE /\ image' = <<IPIL, hs, B_SIZE>>
                      /\ pc' = "loop"
                      /\ status' = "running"
                      /\ clean' = clean
    /\ FreshProc("add")
    /\ inpos' = 0
    /\ restored' = <<>>
    /\ end_size' = 0
    /\ image_ok' = FALSE
    /\ pool0' = PoolBlocks
    /\ db' = fopen_append(db)
    /\ hashindex' = fopen_append(hashindex)

\* input_image, lines 322-366: read the next block and decide what it is.
\* A file shorter than PERCENT_DIV bytes makes size 0, and temp /= size
\* divides by it: the build either traps there or goes on.  The trap kills
\* the process with the header still in the buffer of files->out.
ReadBlock ==
    /\ pc = "loop"
    /\ LET want == IF start_offset > 0 THEN B_SIZE - start_offset ELSE B_SIZE
           got  == Min(want, Len(orig) - inpos)
           eof  == in_eof \/ got < want
           buf  == SubSeq(orig, inpos + 1, inpos + got) \o SubSeq(blk, got + 1, B_SIZE)
           zerodiv == ~in_stdin /\ Len(orig) \div PERCENT_DIV = 0
       IN  \E trap \in (IF zerodiv /\ Len(image) = HDR_SIZE THEN BOOLEAN ELSE {FALSE}) :
             /\ inpos' = inpos + got
             /\ in_eof' = eof
             /\ cnt' = got
             /\ image' = IF trap THEN <<>> ELSE image
             /\ IF trap
                THEN /\ ExitAdd("crash")
                     /\ UNCHANGED <<blk, start_offset, final>>
                ELSE IF got = 0
                THEN /\ ExitAdd("success")
                     /\ UNCHANGED <<blk, start_offset, final>>
                ELSE IF got < B_SIZE /\ eof
                THEN /\ blk' = PadBlock(buf, got)
                     /\ final' = TRUE
                     /\ pc' = "search"
                     /\ UNCHANGED <<start_offset, status, image_ok, clean>>
                ELSE IF got < B_SIZE /\ start_offset = 0
                THEN /\ blk' = PadBlock(buf, got)
                     /\ ExitAdd("error")
                     /\ UNCHANGED <<start_offset, final>>
                ELSE /\ blk' = IF got < B_SIZE THEN PadBlock(buf, got) ELSE buf
                     /\ start_offset' = 0
                     /\ final' = FALSE
                     /\ pc' = "search"
                     /\ UNCHANGED <<status, image_ok, clean>>
    /\ UNCHANGED <<db, hashindex, orig, restored, verb, in_stdin, out_seek,
                   end_size, p, offset, sig, look, head_skip, pool0>>

\* get_block_offset, lines 262-277: hash the block and look for its equal
\* in the database; with none found, enter the critical section.
SearchBlock ==
    /\ pc = "search"
    /\ LET r == get_block_offset_search(heap, fhm, blk, db)
       IN  /\ fhm' = r.st
           /\ IF r.kind = "match"
              THEN /\ offset' = r.ret
                   /\ pc' = "emit"
                   /\ UNCHANGED <<siglock, status, image_ok, clean>>
              ELSE IF r.kind = "none"
              THEN /\ siglock' = 1
                   /\ pc' = "locked"
                   /\ UNCHANGED <<offset, status, image_ok, clean>>
              ELSE /\ ExitAdd(r.kind)
                   /\ UNCHANGED <<offset, siglock>>
    /\ UNCHANGED <<files, verb, in_stdin, out_seek, inpos, in_eof, start_offset, end_size,
                   cnt, p, blk, final, sigterm, heap, head_skip, pool0>>

\* get_block_offset, line 279: offset = add_db_block(blk, files)
AddBlock ==
    /\ pc = "locked"
    /\ offset' = add_db_block_offset(db)
    /\ db' = add_db_block(db, blk)
    /\ pc' = "added"
    /\ UNCHANGED <<hashindex, orig, image, restored, status, verb, in_stdin, out_seek,
                 inpos,
                   in_eof, start_offset, end_size, cnt, p, blk, final, sig, look, hist>>

\* get_block_offset, line 281: index_hash(hash, offset, 1, files)
IndexBlock ==
    /\ pc = "added"
    /\ \E garbage \in {NULL, WILD} :
          LET r == index_hash(heap, jody_block_hash(blk), offset, garbage)
          IN  /\ heap' = r.heap
              /\ IF r.crash
                 THEN /\ ExitAdd("crash")
                      /\ UNCHANGED hashindex
                 ELSE /\ hashindex' = index_write(hashindex, jody_block_hash(blk), 1)
                      /\ pc' = "indexed"
                      /\ UNCHANGED <<status, image_ok, clean>>
    /\ UNCHANGED <<db, orig, image, restored, proc, sig, fhm, head_skip, pool0>>

\* get_block_offset, lines 286-295: leave the critical section; a signal
\* that came inside it ends the process now
Unlock ==
    /\ pc = "indexed"
    /\ siglock' = 0
    /\ IF sigterm # 0
       THEN /\ ExitAdd("signal")
            /\ UNCHANGED offset
       ELSE /\ offset' = AsUint32(offset)
            /\ pc' = "emit"
            /\ UNCHANGED <<status, image_ok, clean>>
    /\ UNCHANGED <<files, verb, in_stdin, out_seek, inpos, in_eof, start_offset, end_size,
                   cnt, p, blk, final, sigterm, look, head_skip, pool0>>

\* get_block_offset, lines 286-287, in the other order: siglock and sigterm
\* are plain ints shared with the handler, so the read of sigterm for the
\* test at line 287 may be done before the store to siglock at line 286 (gcc
\* -O3 emits the load first). The value read is kept in pc.
UnlockLoad ==
    /\ pc = "indexed"
    /\ pc' = IF sigterm # 0 THEN "unlock_term" ELSE "unlock_clear"
    /\ UNCHANGED <<files, status, verb, in_stdin, out_seek, inpos, in_eof,
                   start_offset, end_size, cnt, p, blk, final, offset, sig,
                   look, hist>>

\* get_block_offset, lines 286-292, after UnlockLoad: the store to siglock
\* and the test of the value read earlier
UnlockStore ==
    /\ pc \in {"unlock_term", "unlock_clear"}
    /\ siglock' = 0
    /\ IF pc = "unlock_term"
       THEN /\ ExitAdd("signal")
            /\ UNCHANGED offset
       ELSE /\ offset' = AsUint32(offset)
            /\ pc' = "emit"
            /\ UNCHANGED <<status, image_ok, clean>>
    /\ UNCHANGED <<files, verb, in_stdin, out_seek, inpos, in_eof, start_offset, end_size,
                   cnt, p, blk, final, sigterm, look, head_skip, pool0>>

\* fseeko(files->out, 8, SEEK_SET); fwrite(&cnt, 4, 1, files->out): the result
\* of fseeko is not looked at, and where the seek failed the write goes to
\* the end of the stream
WriteLastSize(img, n, seek) ==
    IF seek THEN [img EXCEPT ![HDR_SIZE] = AsUint32(n)]
            ELSE Append(img, AsUint32(n))

\* input_image, lines 355-359 and 370-372: write the offset to the image
\* file; after the last block, write its size into the header
EmitOffset ==
    /\ pc = "emit"
    /\ IF final
       THEN /\ image' = WriteLastSize(Append(image, offset), cnt, out_seek)
            /\ ExitAdd("success")
       ELSE /\ image' = Append(image, offset)
            /\ IF in_eof
               THEN ExitAdd("success")
               ELSE /\ pc' = "loop"
                    /\ UNCHANGED <<status, image_ok, clean>>
    /\ UNCHANGED <<db, hashindex, orig, restored, proc, sig, look, head_skip, pool0>>

\* ---------------------------------------------------------------- read

\* output_original, lines 392-414: what the checks of the header find, in
\* the order the code makes them
HeaderCheckNoSizes(img) ==
    IF Len(img) < HDR_SIZE THEN "error_in"
    ELSE IF img[1] # IPIL THEN "bad_magic"
    ELSE "ok"
HeaderCheck(img) ==
    IF Len(img) < HDR_SIZE THEN "error_in"
    ELSE IF img[1] # IPIL THEN "bad_magic"
    ELSE IF img[2] >= B_SIZE THEN "error_start_offset"
    ELSE IF img[3] > B_SIZE THEN "error_endsize"
    ELSE "ok"

\* main for "read", lines 502-563 and 616, and output_original up to its
\* loop, lines 390-414: open the files and check the header of the image
\* file at hand: the one the add run left, or the one given where no
\* process has run.  The hash leaves are not set up in a read run.
StartRead ==
    /\ pc = "exit"
    /\ verb \in {"add", "none"}
    /\ FreshProc("read")
    /\ inpos' = Min(HDR_SIZE, Len(image))
    /\ restored' = <<>>
    /\ heap' = <<>>
    /\ in_stdin' = FALSE
    /\ out_seek' = TRUE
    /\ LET check == HeaderCheck(image)
       IN  /\ start_offset' = IF check \in {"error_in", "bad_magic"}
                               THEN start_offset ELSE image[2]
           /\ end_size' = IF check \in {"error_in", "bad_magic", "error_start_offset"}
                           THEN end_size ELSE image[3]
           /\ IF check # "ok"
              THEN ExitRead("error")
              ELSE /\ pc' = "rd_batch"
                   /\ status' = "running"
                   /\ UNCHANGED <<image_ok, clean>>
    /\ db' = fopen_append(db)
    /\ UNCHANGED <<hashindex, orig, image, head_skip, pool0>>

\* output_original, line 417: read the next OFFSET_BATCH offsets, fewer at
\* the end of the image file; with none read, return to main and exit
ReadOffsets ==
    /\ pc = "rd_batch"
    /\ LET got == Min(OFFSET_BATCH, Len(image) - inpos)
       IN  /\ inpos' = inpos + got
           /\ in_eof' = (in_eof \/ got < OFFSET_BATCH)
           /\ cnt' = got
           /\ p' = inpos
           /\ IF got = 0
              THEN ExitRead("success")
              ELSE /\ pc' = "rd_block"
                   /\ UNCHANGED <<status, image_ok, clean>>
    /\ UNCHANGED <<files, verb, in_stdin, out_seek, start_offset, end_size, blk, final,
                   offset, sig, look, head_skip, pool0>>

\* output_original, lines 433-459, one pass of the inner loop: read the
\* block the offset at p names and write it, or a part of it, to the output
\* output_original, line 451: fwrite(data, 1, (B_SIZE - start_offset), out),
\* the bytes written for the first block of an image with a start offset
head_part_skipping(data, so) == SubSeq(data, so + 1, B_SIZE)
head_part(data, so) == SubSeq(data, 1, B_SIZE - so)

\* output_original, lines 433-459: one offset of the batch
WriteBlock ==
    /\ pc = "rd_block"
    /\ LET o == image[p + 1]
           data == BlockAt(db, o)
       IN  IF ~CanReadBlock(db, o)
           THEN /\ ExitRead("error")
                /\ UNCHANGED <<restored, start_offset, cnt, p>>
           ELSE IF cnt = 1 /\ in_eof
           THEN /\ restored' = restored \o SubSeq(data, 1, end_size)
                /\ pc' = "rd_batch"
                /\ UNCHANGED <<start_offset, cnt, p, status, image_ok, clean>>
           ELSE /\ IF start_offset > 0
                   THEN /\ restored' = restored \o head_part(data, start_offset)
                        /\ start_offset' = 0
                   ELSE /\ restored' = restored \o data
                        /\ UNCHANGED start_offset
                /\ p' = p + 1
                /\ cnt' = cnt - 1
                /\ pc' = IF cnt - 1 > 0 THEN "rd_block" ELSE "rd_batch"
                /\ UNCHANGED <<status, image_ok, clean>>
    /\ UNCHANGED <<db, hashindex, orig, image, verb, in_stdin, out_seek, inpos,
                 in_eof,
                   end_size, blk, final, offset, sig, look, head_skip, pool0>>

\* ---------------------------------------------------------------- signals

\* sig_handler, line 67: the handler ends the process itself
sig_exits_unlocked(lock) == TRUE
sig_exits(lock) == lock = 0

\* sig_handler, for SIGINT, SIGTERM, SIGABRT and SIGHUP
Signal ==
    /\ pc \notin {"exit", "idle"}
    /\ IF sig_exits(siglock)
       THEN /\ IF verb = "add" THEN ExitAdd("signal") ELSE ExitRead("signal")
            /\ UNCHANGED sigterm
       ELSE /\ sigterm' = 1
            /\ UNCHANGED <<pc, status, image_ok, clean>>
    /\ UNCHANGED <<files, proc, siglock, look, head_skip, pool0>>

\* main ending at usage: with too few arguments at line 504, before any
\* file is opened; with an unknown verb at line 617 or a bad start offset at
\* lines 571-572, after the database, the input and the output were opened
\* at lines 539-563.  The run names the image file at hand as its output.
UsageError ==
    /\ pc = "exit"
    /\ verb = "add"
    /\ \E kind \in {"argc", "verb", "offset"} :
          /\ image' = IF kind = "argc" THEN image ELSE fopen_wb(image)
          /\ db' = IF kind = "argc" THEN db ELSE fopen_append(db)
          /\ image_ok' = (image_ok /\ kind = "argc")
    /\ FreshProc("usage")
    /\ pc' = "exit"
    /\ status' = "usage"
    /\ inpos' = 0
    /\ in_stdin' = FALSE
    /\ out_seek' = TRUE
    /\ start_offset' = 0
    /\ end_size' = 0
    /\ heap' = <<>>
    /\ UNCHANGED <<hashindex, orig, restored, head_skip, clean, pool0>>

\* The process is gone and with it its memory; the files the run named are
\* taken away before another image is added
Reap ==
    /\ pc = "exit"
    /\ pc' = "idle"
    /\ status' = "none"
    /\ orig' = <<>>
    /\ image' = <<>>
    /\ restored' = <<>>
    /\ FreshProc("none")
    /\ inpos' = 0
    /\ in_stdin' = FALSE
    /\ out_seek' = TRUE
    /\ start_offset' = 0
    /\ end_size' = 0
    /\ heap' = InitHeap
    /\ head_skip' = 0
    /\ image_ok' = FALSE
    /\ pool0' = 0
    /\ UNCHANGED <<db, hashindex, clean>>

Next ==
    \/ Reap
    \/ StartAdd
    \/ ReadBlock
    \/ SearchBlock
    \/ AddBlock
    \/ IndexBlock
    \/ Unlock
    \/ UnlockLoad
    \/ UnlockStore
    \/ EmitOffset
    \/ StartRead
    \/ ReadOffsets
    \/ WriteBlock
    \/ Signal
    \/ UsageError

Spec == Init /\ [][Next]_vars

\* ---------------------------------------------------------------- read runs
\* A read run on any image file: the image file is an input of the program,
\* whatever wrote it.

AllBlocks == [1..B_SIZE -> Byte]

\* The database and the index after the blocks of s were added in order
RECURSIVE PoolOf(_)
PoolOf(s) == IF s = <<>> THEN <<>>
             ELSE add_db_block(PoolOf(SubSeq(s, 1, Len(s) - 1)), s[Len(s)])
RECURSIVE IndexOf(_)
IndexOf(s) == IF s = <<>> THEN <<>>
              ELSE index_write(IndexOf(SubSeq(s, 1, Len(s) - 1)),
                               jody_block_hash(s[Len(s)]), 1)

\* The block sequences add runs leave: no block twice
BlockSeqs(n) ==
    UNION {{s \in [1..k -> AllBlocks] : \A i, j \in 1..k : i < j => s[i] # s[j]} :
           k \in 0..n}

\* A word that is not the signature
NotIPIL == IPIL + 1

RECURSIVE OffsetSeqs(_)
OffsetSeqs(n) ==
    IF n = 0 THEN {<<>>}
    ELSE LET S == OffsetSeqs(n - 1)
         IN  S \cup {Append(s, o) : s \in {t \in S : Len(t) = n - 1},
                                     o \in 0..MaxReadPool}

\* The image files given: cut short inside the header, or a header of any
\* signature, start offset and end size, then offsets that may or may not
\* name a block of the database
Descriptors ==
    {<<>>, <<IPIL>>, <<IPIL, 0>>}
    \cup {<<sg, hs, es>> \o os : sg \in {IPIL, NotIPIL}, hs \in 0..B_SIZE,
                                  es \in 0..(B_SIZE + 1),
                                  os \in OffsetSeqs(MaxOrdinals)}

InitRead ==
    /\ \E s \in BlockSeqs(MaxReadPool) :
          /\ db = PoolOf(s)
          /\ hashindex = IndexOf(s)
    /\ image \in Descriptors
    /\ orig = <<>>
    /\ restored = <<>>
    /\ pc = "exit"
    /\ status = "none"
    /\ verb = "none"
    /\ in_stdin = FALSE
    /\ out_seek = TRUE
    /\ inpos = 0
    /\ in_eof = FALSE
    /\ start_offset = 0
    /\ end_size = 0
    /\ cnt = 1
    /\ p = 0
    /\ blk = Zeros(B_SIZE)
    /\ final = FALSE
    /\ offset = 0
    /\ siglock = 0
    /\ sigterm = 0
    /\ heap = InitHeap
    /\ fhm = InitFhm
    /\ head_skip = 0
    /\ image_ok = FALSE
    /\ clean = TRUE
    /\ pool0 = 0

NextRead ==
    \/ StartRead
    \/ ReadOffsets
    \/ WriteBlock
    \/ Signal

SpecRead == InitRead /\ [][NextRead]_vars

\* ---------------------------------------------------------------- failures

\* output_original, lines 443-455: the bytes the fwrite of this pass of the
\* inner loop is asked to write
BytesDue ==
    IF cnt = 1 /\ in_eof THEN end_size
    ELSE IF start_offset > 0 THEN B_SIZE - start_offset
    ELSE B_SIZE

\* output_original, lines 433-459, with the write to the output failing:
\* fwrite writes fewer bytes than asked for and sets the error flag of the
\* stream. ferror(files->out) is tested at line 454, after the writes of
\* lines 451 and 453; the write of the last block at line 445 is followed
\* by break.
WriteBlockFails ==
    /\ pc = "rd_block"
    /\ CanReadBlock(db, image[p + 1])
    /\ \E w \in 0..(BytesDue - 1) :
          restored' = restored \o SubSeq(BlockAt(db, image[p + 1]), 1, w)
    /\ IF cnt = 1 /\ in_eof
       THEN /\ pc' = "rd_batch"
            /\ UNCHANGED <<status, image_ok, clean>>
       ELSE ExitRead("error")
    /\ UNCHANGED <<db, hashindex, orig, image, proc, sig, look, head_skip, pool0>>

NextReadFailing ==
    \/ StartRead
    \/ ReadOffsets
    \/ WriteBlock
    \/ WriteBlockFails
    \/ Signal

\* One read run with writes to the output that fail
SpecReadFailing == InitRead /\ [][NextReadFailing]_vars
\* One add run in which the allocation of a leaf or the write to the index
\* fails after the block went into the database.

\* No process yet, the database d and the index idx at hand
IdleOn(d, idx) ==
    /\ db = d
    /\ hashindex = idx
    /\ orig = <<>>
    /\ image = <<>>
    /\ restored = <<>>
    /\ pc = "idle"
    /\ status = "none"
    /\ verb = "none"
    /\ in_stdin = FALSE
    /\ out_seek = TRUE
    /\ inpos = 0
    /\ in_eof = FALSE
    /\ start_offset = 0
    /\ end_size = 0
    /\ cnt = 1
    /\ p = 0
    /\ blk = Zeros(B_SIZE)
    /\ final = FALSE
    /\ offset = 0
    /\ siglock = 0
    /\ sigterm = 0
    /\ heap = InitHeap
    /\ fhm = InitFhm
    /\ head_skip = 0
    /\ image_ok = FALSE
    /\ clean = TRUE
    /\ pool0 = 0

\* The database and the index as complete add runs left them
InitFailing == \E s \in BlockSeqs(MaxReadPool) : IdleOn(PoolOf(s), IndexOf(s))

\* index_hash would ask malloc for a leaf: the chain of the bucket is full
NeedsLeaf(h, hash) == Len(index_hash(h, hash, 0, NULL).heap) > Len(h)

\* What a write that fwrite reports as short has put into the file: less
\* than the whole record
ShortWrites(hash) == {SubSeq(HashBytes(hash), 1, n) : n \in 0..(HASH_SIZE - 1)}

\* get_block_offset, line 281, index_hash ending the process: at line 151
\* (goto oom, lines 174-176) with the hash not yet in the table, or at lines
\* 168-171 with the hash in the table and the record not whole in the file
IndexBlockFails ==
    /\ pc = "added"
    /\ LET hash == jody_block_hash(blk)
       IN  \/ /\ NeedsLeaf(heap, hash)
              /\ UNCHANGED <<heap, hashindex>>
           \/ /\ heap' = index_hash(heap, hash, offset, NULL).heap
              /\ \E w \in ShortWrites(hash) : hashindex' = hashindex \o w
    /\ ExitAdd("error")
    /\ UNCHANGED <<db, orig, image, restored, proc, sig, fhm, head_skip, pool0>>

\* input_image, line 329: if (ferror(files->in))
ferror_unchecked(err) == FALSE
ferror_in(err) == err

\* input_image, lines 326-366, with a read error: fread returns fewer bytes
\* than asked for, the error flag of the stream set and not its end-of-file
\* flag
ReadBlockFails ==
    /\ pc = "loop"
    /\ ~in_eof
    /\ LET want == IF start_offset > 0 THEN B_SIZE - start_offset ELSE B_SIZE
       IN  \E got \in 0..Min(want - 1, Len(orig) - inpos) :
             LET buf == SubSeq(orig, inpos + 1, inpos + got) \o SubSeq(blk, got + 1, B_SIZE)
             IN  /\ inpos' = inpos + got
                 /\ cnt' = got
                 /\ IF ferror_in(TRUE)
                    THEN /\ blk' = buf
                         /\ ExitAdd("error")
                         /\ UNCHANGED <<start_offset, final>>
                    ELSE IF got = 0
                    THEN /\ ExitAdd("success")
                         /\ UNCHANGED <<blk, start_offset, final>>
                    ELSE IF start_offset = 0
                    THEN /\ blk' = PadBlock(buf, got)
                         /\ ExitAdd("error")
                         /\ UNCHANGED <<start_offset, final>>
                    ELSE /\ blk' = PadBlock(buf, got)
                         /\ start_offset' = 0
                         /\ final' = FALSE
                         /\ pc' = "search"
                         /\ UNCHANGED <<status, image_ok, clean>>
    /\ UNCHANGED <<db, hashindex, orig, image, restored, verb, in_stdin, out_seek,
                   in_eof, end_size, p, offset, sig, look, head_skip, pool0>>

NextFailing ==
    \/ StartAdd
    \/ ReadBlock
    \/ ReadBlockFails
    \/ SearchBlock
    \/ AddBlock
    \/ IndexBlock
    \/ IndexBlockFails
    \/ Unlock
    \/ UnlockLoad
    \/ UnlockStore
    \/ EmitOffset
    \/ Signal

SpecFailing == InitFailing /\ [][NextFailing]_vars

\* ---------------------------------------------------------------- damaged index
\* One add run on an index file that ends inside a record, as a file cut
\* short does.

\* The bytes of a record cut short: at least one, fewer than HASH_SIZE
PartialRecords == UNION {[1..n -> Byte] : n \in 1..(HASH_SIZE - 1)}

InitPartialIndex ==
    \E s \in BlockSeqs(MaxReadPool), t \in PartialRecords :
        IdleOn(PoolOf(s), IndexOf(s) \o t)

NextAddRun ==
    \/ StartAdd
    \/ ReadBlock
    \/ SearchBlock
    \/ AddBlock
    \/ IndexBlock
    \/ Unlock
    \/ UnlockLoad
    \/ UnlockStore
    \/ EmitOffset
    \/ Signal

SpecPartialIndex == InitPartialIndex /\ [][NextAddRun]_vars

\* ---------------------------------------------------------------- wide offsets

\* The most blocks a database can hold with every offset below
\* 2^(WORD_BITS - 1), the least value an int does not hold
WidePool == TwoTo(WORD_BITS - 1) - 1

\* Databases of that many blocks. At this block size no database of that
\* size is without equal blocks; these hold one or two blocks in turns, and
\* leave blocks for an input to be new.
WideSeqs ==
    {[k \in 1..WidePool |-> IF k % 2 = 1 THEN a ELSE b] : a, b \in AllBlocks}

\* One add run on such a database, its index in step
InitWide == \E s \in WideSeqs : IdleOn(PoolOf(s), IndexOf(s))

SpecWide == InitWide /\ [][NextAddRun]_vars

\* ---------------------------------------------------------------- claims

IsPrefix(a, b) == Len(a) <= Len(b) /\ SubSeq(b, 1, Len(a)) = a

\* The input cut the way the image format describes it: a first piece of at
\* most `first` bytes, then pieces of at most B_SIZE bytes
RECURSIVE Chunks(_, _)
Chunks(x, first) ==
    IF x = <<>> THEN <<>>
    ELSE LET n == Min(first, Len(x))
         IN  <<SubSeq(x, 1, n)>> \o Chunks(SubSeq(x, n + 1, Len(x)), B_SIZE)

InputChunks == Chunks(orig, B_SIZE - head_skip)

ZeroPadded(c) == c \o Zeros(B_SIZE - Len(c))

Blocks == 0..(PoolBlocks - 1)

\* The offsets of the image file, after its header
ImageOffsets == SubSeq(image, HDR_SIZE + 1, Len(image))

AddReturned == pc = "exit" /\ verb = "add" /\ status = "success"
ReadReturned == pc = "exit" /\ verb = "read" /\ status = "success"

\* C1: reading back the image file of a completed add run writes an output
\* byte-equal to the input of that run, for every input and start offset.
C1_RoundTrip == (ReadReturned /\ image_ok) => restored = orig

\* C2: the offset get_block_offset returns names a block of the database
\* whose bytes are those of the input block, also when another block of the
\* database has the same hash.
C2_MatchSound ==
    pc = "emit" => (offset \in Blocks /\ BlockAt(db, offset) = blk)

\* C2 happens: an input block is found at an existing offset after an
\* earlier block with the same hash and other bytes was compared and left.
C2_Witness ==
    /\ pc = "emit"
    /\ offset < pool0
    /\ \E o \in Blocks :
          /\ o < offset
          /\ BlockAt(db, o) # blk
          /\ jody_block_hash(BlockAt(db, o)) = jody_block_hash(blk)

\* C3: no two offsets of the database hold the same block, whatever add runs
\* came before and however they ended.
C3_NoDuplicates ==
    \A i, j \in Blocks : i < j => BlockAt(db, i) # BlockAt(db, j)

\* C3 happens: a completed add run reused a block of an earlier run and a
\* block it had appended itself.
C3_Witness ==
    /\ AddReturned
    /\ \E k \in 1..Len(ImageOffsets) : ImageOffsets[k] < pool0
    /\ \E k, m \in 1..Len(ImageOffsets) :
          k < m /\ ImageOffsets[k] = ImageOffsets[m] /\ ImageOffsets[k] >= pool0

\* C4: with every add run so far completed, the database is a whole number
\* of blocks, the index holds one record per block, and record i is the
\* hash of block i.
C4_Lockstep ==
    (pc \in {"exit", "idle"} /\ clean) =>
        /\ Len(db) % B_SIZE = 0
        /\ Len(hashindex) = HASH_SIZE * (Len(db) \div B_SIZE)
        /\ \A i \in Blocks : HashAt(hashindex, i) = jody_block_hash(BlockAt(db, i))

\* C4 happens: a second completed add run has appended to the database.
C4_Witness ==
    /\ AddReturned
    /\ clean
    /\ pool0 > 0
    /\ PoolBlocks > pool0
    /\ PoolBlocks >= 3

\* C5: every step of an add or read run leaves the database and the index
\* as they were or longer at the end: the old content is a prefix of the new.
C5_AppendOnly ==
    [][IsPrefix(db, db') /\ IsPrefix(hashindex, hashindex')]_vars

\* C5 happens: a read run has ended after an add run appended to a database
\* that held blocks before.
C5_Witness ==
    /\ pc = "exit"
    /\ verb = "read"
    /\ pool0 > 0
    /\ PoolBlocks > pool0

\* C6: a completed add run leaves an image file of the signature, the start
\* offset given, the end size, and one offset per piece of the input in
\* order, each naming the database block that is the piece zero-padded.
C6_Descriptor ==
    AddReturned =>
        /\ Len(image) = HDR_SIZE + Len(InputChunks)
        /\ image[1] = IPIL
        /\ image[2] = head_skip
        /\ \A k \in 1..Len(InputChunks) :
              /\ ImageOffsets[k] \in Blocks
              /\ BlockAt(db, ImageOffsets[k]) = ZeroPadded(InputChunks[k])

\* C6 happens: a completed add run with a shortened first block, a full
\* block and a short last block, the image file written to a pipe.
C6_Witness ==
    /\ AddReturned
    /\ ~out_seek
    /\ head_skip > 0
    /\ Len(InputChunks) = 3
    /\ Len(InputChunks[3]) < B_SIZE

\* C7: while the database holds a block the index does not, the signal lock
\* is set; a process ended by a signal leaves one index record per block.
C7_SignalAtomic ==
    /\ pc = "added" => siglock = 1
    /\ (pc = "exit" /\ status = "signal") =>
           (Len(db) % B_SIZE = 0 /\ Len(hashindex) = HASH_SIZE * PoolBlocks)

\* C7 happens: a signal came inside the critical section and the process
\* ended after the block and its hash were both written.
C7_Witness ==
    /\ pc = "exit"
    /\ status = "signal"
    /\ sigterm = 1
    /\ PoolBlocks > pool0

\* The in-memory table a new process builds from the index file
Rebuilt == ReadIndex(InitHeap, hashindex, 0, {}).heap

\* C8: when an add run ends through exit(), its in-memory table holds in
\* every bucket the nodes, in order, a rebuild from the index file gives.
C8_RestartEquivalent ==
    (pc = "exit" /\ verb = "add" /\ status # "crash") =>
        \A b \in 0..(HASH_TOP_SIZE - 1) : BucketNodes(heap, b) = BucketNodes(Rebuilt, b)

\* C8 happens: the table of a completed add run holds hashes read in at the
\* start and hashes added during the run, in a chain of more than one leaf.
C8_Witness ==
    /\ AddReturned
    /\ pool0 >= 2
    /\ PoolBlocks > pool0
    /\ Len(heap) > HASH_TOP_SIZE

\* C9: a read run that succeeds on an image file of n >= 1 offsets writes
\* (n - 1) * B_SIZE + end size - start offset bytes.
C9_OutputLength ==
    (ReadReturned /\ Len(ImageOffsets) >= 1
        /\ image[2] \in 0..(B_SIZE - 1) /\ image[3] \in 1..B_SIZE) =>
        Len(restored) = (Len(ImageOffsets) - 1) * B_SIZE + image[3] - image[2]

\* C10: after a completed add run on a non-empty input, the end size in the
\* header is the number of input bytes in the last block, between 1 and B_SIZE.
C10_TailBytes ==
    (AddReturned /\ orig # <<>>) =>
        /\ image[3] = Len(InputChunks[Len(InputChunks)])
        /\ image[3] \in 1..B_SIZE

\* A header the format rules out: cut short, another signature, a start
\* offset of a block or more, an end size of more than a block
BadDescriptor(img) ==
    \/ Len(img) < HDR_SIZE
    \/ img[1] # IPIL
    \/ img[2] >= B_SIZE
    \/ img[3] > B_SIZE

\* C11: a read run on an image file with a bad header is only ever found
\* ended, with an error, nothing written to the output; it never stands at
\* the read of an offset or of a database block.
C11_CorruptRejected ==
    (verb = "read" /\ BadDescriptor(image)) =>
        (pc = "exit" /\ status = "error" /\ restored = <<>>)

\* C11 happens: the end size alone is bad, and the first offset names a
\* block the database holds.
C11_Witness ==
    /\ verb = "read"
    /\ pc = "exit"
    /\ Len(image) > HDR_SIZE
    /\ image[1] = IPIL
    /\ image[2] < B_SIZE
    /\ image[3] > B_SIZE
    /\ image[HDR_SIZE + 1] \in Blocks

\* C12: an add run on an empty input, when not ended by a signal, only reads
\* the input, ends with success and leaves an image file of the header alone
\* and the database as it was; the read run on that image file, when not
\* ended by a signal, ends with success and an empty output.
C12_EmptyInput ==
    /\ (verb = "add" /\ orig = <<>>) => pc \in {"loop", "exit"}
    /\ (pc = "exit" /\ verb = "add" /\ orig = <<>> /\ status # "signal") =>
           /\ status = "success"
           /\ Len(image) = HDR_SIZE
           /\ image[1] = IPIL
           /\ image[2] = head_skip
           /\ PoolBlocks = pool0
    /\ (pc = "exit" /\ verb = "read" /\ orig = <<>> /\ image_ok /\ status # "signal") =>
           (status = "success" /\ restored = <<>>)

\* C12 happens: the empty input came on stdin, with a start offset, and the
\* image file was read back.
C12_Witness ==
    /\ ReadReturned
    /\ image_ok
    /\ orig = <<>>
    /\ head_skip > 0

\* C13: no step of a read run, its start included, changes the database or
\* the index, however the run ends.
C13_ReadFrame ==
    [][verb' = "read" => (db' = db /\ hashindex' = hashindex)]_vars

\* C13 happens: a read run wrote a part of its output and then failed on an
\* offset the database has no block for.
C13_Witness ==
    /\ pc = "exit"
    /\ verb = "read"
    /\ status = "error"
    /\ ~BadDescriptor(image)
    /\ restored # <<>>
    /\ db # <<>>

\* C14: a process that ends at usage leaves the file it named as its output,
\* the database and the index as they were.
C14_UsageNoIO ==
    [][verb' = "usage" => (image' = image /\ db' = db /\ hashindex' = hashindex)]_vars

\* C14 happens: a process ended at usage where an image file and a database
\* with blocks were at hand, and the image file is still there.
C14_Witness ==
    /\ pc = "exit"
    /\ verb = "usage"
    /\ status = "usage"
    /\ image # <<>>
    /\ db # <<>>

\* C15: an add run on an index file that ends in a part of a record is only
\* ever found ended with an error, the database as it was when it started.
C15_PartialIndexFatal ==
    (verb = "add" /\ Len(hashindex) % HASH_SIZE # 0) =>
        (pc = "exit" /\ status = "error" /\ PoolBlocks = pool0)

\* C15 happens: an add run on such an index file returned with success after
\* it appended a block and its hash behind the partial record.
C15_Witness ==
    /\ AddReturned
    /\ Len(hashindex) % HASH_SIZE # 0
    /\ PoolBlocks > pool0
    /\ pool0 > 0

\* C16: an add run that ended on a fatal error leaves one whole index record
\* per block of the database, record i the hash of block i.
C16_FatalKeepsLockstep ==
    (pc = "exit" /\ verb = "add" /\ status = "error") =>
        /\ Len(hashindex) = HASH_SIZE * PoolBlocks
        /\ \A i \in Blocks : HashAt(hashindex, i) = jody_block_hash(BlockAt(db, i))

\* C16 happens: the run ended on an error after it appended a block to a
\* database that held blocks before, no leaf being there for the hash.
C16_Witness ==
    /\ pc = "exit"
    /\ verb = "add"
    /\ status = "error"
    /\ pool0 > 0
    /\ PoolBlocks > pool0
    /\ NeedsLeaf(heap, jody_block_hash(blk))

\* C17: a read run that succeeds on an image file of n >= 1 offsets ends its
\* output with the first end-size bytes of the block of the last offset and
\* has written every earlier block without regard to the end size, whatever
\* n is: the output is as long as the earlier blocks and the end size.
C17_TailOnLastOnly ==
    (ReadReturned /\ ~BadDescriptor(image) /\ Len(ImageOffsets) >= 1) =>
        LET n == Len(ImageOffsets)
            es == image[3]
            before == IF n > 1 THEN (n - 1) * B_SIZE - image[2] ELSE 0
        IN  /\ Len(restored) = before + es
            /\ SubSeq(restored, before + 1, before + es)
                   = SubSeq(BlockAt(db, ImageOffsets[n]), 1, es)

\* C17 happens: an image file of one offset more than a full read of
\* offsets, its end size less than a block, was read with success.
C17_Witness ==
    /\ ReadReturned
    /\ ~BadDescriptor(image)
    /\ Len(ImageOffsets) = OFFSET_BATCH + 1
    /\ image[3] < B_SIZE
    /\ image[3] > 0

\* C18 as stated: reading an image file with a start offset, the block of
\* the first offset, where it is not the last, is written as its bytes from
\* the start offset to the end of the block; the start offset is then 0 and
\* every later block but the last is written whole.
C18_HeadSkipped ==
    [][(verb = "read" /\ pc = "rd_block" /\ p' = p + 1) =>
          /\ start_offset' = 0
          /\ restored' = restored \o
                 IF p = HDR_SIZE /\ image[2] > 0
                 THEN SubSeq(BlockAt(db, image[p + 1]), image[2] + 1, B_SIZE)
                 ELSE BlockAt(db, image[p + 1])]_vars

\* C18, with the bytes the program writes: reading an image file with a
\* start offset, the block of the first offset, where it is not the last, is
\* written as its first B_SIZE minus start offset bytes; the start offset is
\* then 0 and every later block but the last is written whole.
C18_HeadFirstBytes ==
    [][(verb = "read" /\ pc = "rd_block" /\ p' = p + 1) =>
          /\ start_offset' = 0
          /\ restored' = restored \o
                 IF p = HDR_SIZE /\ image[2] > 0
                 THEN SubSeq(BlockAt(db, image[p + 1]), 1, B_SIZE - image[2])
                 ELSE BlockAt(db, image[p + 1])]_vars

\* C18 happens: the first block of an image file with a start offset was
\* written short, a later block whole, and the block's first bytes are not
\* its last ones.
C18_Witness ==
    /\ verb = "read"
    /\ ~BadDescriptor(image)
    /\ image[2] > 0
    /\ p = HDR_SIZE + 2
    /\ Len(restored) = 2 * B_SIZE - image[2]
    /\ start_offset = 0
    /\ LET d == BlockAt(db, image[HDR_SIZE + 1])
       IN  SubSeq(d, 1, B_SIZE - image[2]) # SubSeq(d, image[2] + 1, B_SIZE)

\* C19: a signal that comes during an add run is not lost and the run does
\* not end in success. A signal is put off only inside the critical section;
\* once one was put off, the process is still inside the section, or it has
\* ended in failure with the block and its hash both written, the offset of
\* the block not written to the image file; it reads no block, writes no
\* offset and does not return with success.
C19_SignalNotLost ==
    /\ []((verb = "add" /\ sigterm = 1) =>
             \/ pc \in {"locked", "added", "indexed", "unlock_term"} /\ siglock = 1
             \/ /\ pc = "exit"
                /\ status = "signal"
                /\ Len(hashindex) = HASH_SIZE * PoolBlocks
                /\ PoolBlocks > pool0
                /\ \A i \in 1..Len(image) : i > HDR_SIZE => image[i] # PoolBlocks - 1)
    /\ [][(verb = "add" /\ sigterm = 0 /\ sigterm' = 1) =>
             (siglock = 1 /\ siglock' = 1 /\ pc' = pc)]_vars
    /\ [][(verb = "add" /\ sigterm = 1 /\ pc \notin {"exit", "idle"}) =>
             (image' = image /\ inpos' = inpos)]_vars

\* C19 fails: a signal came inside the critical section, and the add run
\* went on and returned with success.
C19_Witness ==
    /\ verb = "add"
    /\ pc = "exit"
    /\ status = "success"
    /\ sigterm = 1

\* The hashes a block can have
Hashes == 0..B_SIZE

\* The offsets stored with this hash in its bucket, in the order of the
\* chain
RECURSIVE StoredWith(_, _)
StoredWith(nodes, hash) ==
    IF nodes = <<>> THEN <<>>
    ELSE (IF Head(nodes).hash = hash THEN <<Head(nodes).offset>> ELSE <<>>)
             \o StoredWith(Tail(nodes), hash)

\* C20: in an add run, for every hash, find_hash_match called with reset and
\* then again after each candidate returns, before it returns -1, just the
\* offsets stored with that hash in the bucket of the hash, each once, in the
\* order they were stored in (which is by rising offset), also where one of
\* them is in the last place of a full leaf or the last of the chain.
C20_Enumerates ==
    (verb = "add" /\ pc # "idle") =>
        \A f \in Hashes :
            LET nodes == BucketNodes(heap, HASH_HEAD(f))
                got == Candidates(heap, InitFhm, f, 1, Len(nodes) + 1)
            IN  /\ got = StoredWith(nodes, f)
                /\ \A i, j \in 1..Len(got) : i < j => got[i] < got[j]

\* C20 happens: a search was given a candidate from the last place of a
\* full leaf, which was not equal, went on into the next leaf and found the
\* block there as the last node of the chain, after a node of another hash.
C20_Witness ==
    /\ verb = "add"
    /\ pc = "emit"
    /\ fhm.dirty = 0
    /\ fhm.leaf > HASH_TOP_SIZE
    /\ LET first == heap[hash_top(HASH_HEAD(jody_block_hash(blk)))].node
       IN  /\ Len(first) = HASH_ALLOC_SIZE
           /\ first[HASH_ALLOC_SIZE].hash = jody_block_hash(blk)
           /\ first[HASH_ALLOC_SIZE].offset # offset
           /\ first[1].hash # jody_block_hash(blk)
    /\ heap[fhm.leaf].next = NULL
    /\ fhm.rel_offset + 1 = Len(heap[fhm.leaf].node)
    /\ heap[fhm.leaf].node[fhm.rel_offset + 1].offset = offset

\* The chain from this leaf on ends with a leaf whose next is NULL, within
\* as many steps as there are leaves
RECURSIVE EndsInNull(_, _, _)
EndsInNull(h, leaf, fuel) ==
    IF leaf = WILD \/ fuel = 0 THEN FALSE
    ELSE IF h[leaf].next = NULL THEN TRUE
    ELSE EndsInNull(h, h[leaf].next, fuel - 1)

\* C21: in an add run, after the index was read in and after every insert,
\* the chain of leaves of every bucket is finite and the next of its last
\* leaf is NULL, also for a leaf index_hash allocated, so that a search or
\* an insert that walks the chain comes to its end.
C21_ChainsEndInNull ==
    (verb = "add" /\ pc # "idle") =>
        \A b \in 0..(HASH_TOP_SIZE - 1) : EndsInNull(heap, hash_top(b), Len(heap))

\* C21 fails: index_hash allocated a leaf for a block new to the database,
\* and the next of that leaf, the last of its chain, is not NULL.
C21_Witness ==
    /\ verb = "add"
    /\ pc = "indexed"
    /\ Len(heap) > HASH_TOP_SIZE
    /\ heap[Len(heap)].next = WILD
    /\ heap[Len(heap)].node[1].offset = PoolBlocks - 1

\* The entries the records k, k + 1, ... of an index file give to bucket b:
\* the hash of record i with offset i
RECURSIVE RecordEntries(_, _, _)
RecordEntries(idx, k, b) ==
    IF HASH_SIZE * (k + 1) > Len(idx) THEN <<>>
    ELSE LET hash == HashOfBytes(SubSeq(idx, HASH_SIZE * k + 1, HASH_SIZE * (k + 1)))
         IN  (IF HASH_HEAD(hash) = b THEN <<[hash |-> hash, offset |-> k]>> ELSE <<>>)
                 \o RecordEntries(idx, k + 1, b)

\* An add run has read the index in and has not yet read a block
AfterRebuild ==
    verb = "add" /\ pc = "loop" /\ inpos = 0 /\ ~in_eof /\ Len(image) = HDR_SIZE

\* C22: when main has read the index file in, the table holds for record i
\* of the file, counted from 0 through all reads of HASH_BATCH hashes, the
\* one entry (hash of record i, i), and no other entry.
C22_RebuildOrdinals ==
    AfterRebuild =>
        \A b \in 0..(HASH_TOP_SIZE - 1) :
            BucketNodes(heap, b) = RecordEntries(hashindex, 0, b)

\* C22 happens: the index file read in took more than one read of
\* HASH_BATCH hashes, the last of them not full.
C22_Witness ==
    /\ AfterRebuild
    /\ HashRecords(hashindex) > HASH_BATCH
    /\ HashRecords(hashindex) % HASH_BATCH # 0

\* The blocks of a sequence of blocks that are not in known and not earlier
\* in the sequence, in order
RECURSIVE FirstSeen(_, _)
FirstSeen(blocks, known) ==
    IF blocks = <<>> THEN <<>>
    ELSE IF Head(blocks) \in known THEN FirstSeen(Tail(blocks), known)
    ELSE <<Head(blocks)>> \o FirstSeen(Tail(blocks), known \cup {Head(blocks)})

\* The blocks the add run has appended to the database so far
NewBlocks == [k \in 1..(PoolBlocks - pool0) |-> BlockAt(db, pool0 + k - 1)]

\* C23: in one add run, a block is appended to the database only when the
\* index file holds a hash for every block of the database, what is appended
\* is the block in hand and its offset is the number of blocks before the
\* append; the next write to the index file appends the hash of that block;
\* and the blocks appended are, in the order of the input, its blocks new to
\* the database.
C23_Alternate ==
    /\ [][(verb = "add" /\ db' # db) =>
             /\ Len(hashindex) = HASH_SIZE * PoolBlocks
             /\ db' = db \o blk
             /\ offset' = PoolBlocks]_vars
    /\ [][(verb = "add" /\ hashindex' # hashindex) =>
             /\ Len(db) = B_SIZE * (HashRecords(hashindex) + 1)
             /\ hashindex' = hashindex \o
                    HashBytes(jody_block_hash(BlockAt(db, PoolBlocks - 1)))
             /\ db' = db]_vars
    /\ []((verb = "add" /\ pc # "idle") =>
             IsPrefix(NewBlocks,
                      FirstSeen([k \in 1..Len(InputChunks) |-> ZeroPadded(InputChunks[k])],
                                {BlockAt(db, o) : o \in 0..(pool0 - 1)})))

\* C23 happens: the add run has appended two blocks and their hashes to a
\* database that held a block, and a block of the input between the two was
\* found in the database.
C23_Witness ==
    /\ verb = "add"
    /\ pc = "indexed"
    /\ pool0 >= 1
    /\ PoolBlocks = pool0 + 2
    /\ Len(ImageOffsets) >= 2
    /\ \E i \in 1..Len(ImageOffsets) : ImageOffsets[i] = pool0 /\ i < Len(ImageOffsets)
    /\ ImageOffsets[Len(ImageOffsets)] < pool0 + 1

\* C24: when the seek to the place of the last size in the header fails at
\* the end of an add run, the image file being no file to seek in, the
\* process ends in failure and the size is not written where the stream
\* stands, after the last offset.
C24_SeekFailureFatal ==
    [][(verb = "add" /\ pc = "emit" /\ final /\ ~out_seek) =>
          /\ pc' = "exit"
          /\ status' # "success"
          /\ image' = Append(image, offset)]_vars

\* C24 fails: an add run whose seek in the image file failed has returned
\* with success, the size of the last block written as a word after the
\* offsets.
C24_Witness ==
    /\ AddReturned
    /\ ~out_seek
    /\ Len(InputChunks) >= 1
    /\ Len(image) = HDR_SIZE + Len(InputChunks) + 1
    /\ image[Len(image)] = Len(InputChunks[Len(InputChunks)])
    /\ image[HDR_SIZE] = B_SIZE

\* The parts of C25: what add_db_block returned, what the table holds, what
\* the image file names, and whether a block added is found again
C25_Returned == pc = "added" => offset = PoolBlocks - 1
C25_Stored ==
    \A b \in 0..(HASH_TOP_SIZE - 1) :
        BucketNodes(heap, b) = RecordEntries(hashindex, 0, b)
C25_Recorded ==
    \A k \in 1..Min(Len(ImageOffsets), Len(InputChunks)) :
        /\ ImageOffsets[k] \in Blocks
        /\ BlockAt(db, ImageOffsets[k]) = ZeroPadded(InputChunks[k])
C25_Found ==
    \A i, j \in 1..Len(NewBlocks) : i < j => NewBlocks[i] # NewBlocks[j]

\* C25: offsets are unsigned words from end to end, also from
\* 2^(WORD_BITS - 1) on: add_db_block returns the number of blocks before
\* its write, the table holds that number for the block, the image file
\* names for every block of the input a block of the database equal to it,
\* and a block the run has added is found by a later search and not added
\* again.
C25_UnsignedOffsets ==
    (verb = "add" /\ pc # "idle" /\ status # "crash") =>
        (C25_Returned /\ C25_Stored /\ C25_Recorded /\ C25_Found)

\* C25 fails: a block the run had added at offset 2^(WORD_BITS - 1) came
\* again in the input, was not found, and was added once more.
C25_Witness ==
    /\ verb = "add"
    /\ pc = "indexed"
    /\ pool0 = WidePool
    /\ PoolBlocks = WidePool + 3
    /\ BlockAt(db, WidePool + 1) = BlockAt(db, WidePool + 2)
    /\ Len(ImageOffsets) = 2
    /\ ImageOffsets[2] = WidePool + 1

\* C26: add_db_block returns the size of the database before its write over
\* B_SIZE, and read_db_block of that offset gives the block just written,
\* then and for the rest of the run: the block stays as it is, and a later
\* search that ends at its offset has read bytes equal to the block in hand.
C26_ReadBackAppended ==
    /\ [][(verb = "add" /\ db' # db) =>
             /\ offset' = Len(db) \div B_SIZE
             /\ CanReadBlock(db', offset')
             /\ BlockAt(db', offset') = blk]_vars
    /\ [][(verb = "add" /\ verb' = "add") =>
             \A o \in pool0..(PoolBlocks - 1) :
                 CanReadBlock(db', o) /\ BlockAt(db', o) = BlockAt(db, o)]_vars
    /\ [][(verb = "add" /\ pc = "search" /\ pc' = "emit") =>
             (CanReadBlock(db, offset') /\ BlockAt(db, offset') = blk)]_vars

\* C26 happens: a block was added after a block of the same hash was read
\* from the database and found not equal, and a later block of the input
\* was found at the offset add_db_block had returned.
C26_Witness ==
    /\ verb = "add"
    /\ pc = "emit"
    /\ fhm.dirty = 0
    /\ offset >= pool0
    /\ offset < PoolBlocks
    /\ BlockAt(db, offset) = blk
    /\ \E o \in 0..(offset - 1) :
          /\ jody_block_hash(BlockAt(db, o)) = jody_block_hash(blk)
          /\ BlockAt(db, o) # blk
    /\ \E k \in 1..Len(ImageOffsets) : ImageOffsets[k] = offset

\* C27: in an add run, a read of the input that gives fewer than B_SIZE
\* bytes with the input not at its end and no start offset left ends the
\* process in failure: nothing is appended to the database or the index and
\* no offset is written to the image file for that block.
C27_TruncationFatal ==
    [][(verb = "add" /\ pc = "loop" /\ start_offset = 0
            /\ (cnt' # cnt \/ inpos' # inpos)
            /\ cnt' < B_SIZE /\ ~in_eof') =>
          /\ pc' = "exit"
          /\ status' = "error"
          /\ db' = db
          /\ hashindex' = hashindex
          /\ image' = image]_vars

\* C27 happens: after a first block was written to the image file, a read
\* gave part of a block with more input to come, and the process ended in
\* failure.
C27_Witness ==
    /\ verb = "add"
    /\ pc = "exit"
    /\ status = "error"
    /\ head_skip = 0
    /\ ~in_eof
    /\ cnt < B_SIZE
    /\ cnt > 0
    /\ inpos < Len(orig)
    /\ Len(ImageOffsets) >= 1

\* C28: in a read run, a write of block data to the output that writes
\* fewer bytes than it was asked to, for the last block as for any other,
\* ends the process in failure.
C28_WriteFailureFatal ==
    [][(verb = "read" /\ pc = "rd_block" /\ CanReadBlock(db, image[p + 1])
            /\ status' # "signal"
            /\ Len(restored') < Len(restored) + BytesDue) =>
          (pc' = "exit" /\ status' = "error")]_vars

\* C28 fails: the one block of an image file was written short of its end
\* size, and the read run returned with success.
C28_Witness ==
    /\ ReadReturned
    /\ ~BadDescriptor(image)
    /\ Len(ImageOffsets) = 1
    /\ CanReadBlock(db, ImageOffsets[1])
    /\ Len(restored) < image[3]
    /\ Len(restored) > 0

\* What the statics of find_hash_match can be left at over these leaves
Cursors(h) ==
    {InitFhm} \cup
    {[leaf |-> l, rel_offset |-> r, dirty |-> d] :
        l \in {k \in 1..Len(h) : h[k].next # WILD},
        r \in 0..(HASH_ALLOC_SIZE - 1), d \in {0, 1}}

\* C29: what the search of get_block_offset finds for a block is the same
\* whatever the statics of find_hash_match were left at by the search before,
\* ended by a match or by the end of the chain: it is what a search from the
\* first entry of the bucket finds, and the offset the search returns is the
\* least offset of a block equal to the block in hand.
C29_SearchIndependent ==
    /\ []((verb = "add" /\ pc = "search") =>
             \A st \in Cursors(heap) :
                 LET r == get_block_offset_search(heap, st, blk, db)
                     r0 == get_block_offset_search(heap, InitFhm, blk, db)
                 IN  r.kind = r0.kind /\ r.ret = r0.ret)
    /\ [][(verb = "add" /\ pc = "search" /\ pc' = "emit") =>
             /\ BlockAt(db, offset') = blk
             /\ \A o \in 0..(offset' - 1) : BlockAt(db, o) # blk]_vars
    /\ [][(verb = "add" /\ pc = "search" /\ pc' = "locked") =>
             \A o \in 0..(PoolBlocks - 1) : BlockAt(db, o) # blk]_vars

\* C29 happens: the search for the block before ended with a match in the
\* second leaf of a chain, and the search for this block has found it in
\* the first leaf of the same chain.
C29_Witness ==
    /\ verb = "add"
    /\ pc = "emit"
    /\ fhm.dirty = 0
    /\ fhm.leaf = hash_top(HASH_HEAD(jody_block_hash(blk)))
    /\ Len(ImageOffsets) >= 1
    /\ ImageOffsets[Len(ImageOffsets)] < pool0
    /\ LET nxt == heap[fhm.leaf].next
       IN  /\ nxt \notin {NULL, WILD}
           /\ \E k \in 1..Len(heap[nxt].node) :
                 heap[nxt].node[k].offset = ImageOffsets[Len(ImageOffsets)]

\* C30: in an add run, after the index was read in and after every insert,
\* every entry is in the bucket of the head of its hash, no leaf holds more
\* than HASH_ALLOC_SIZE entries, a leaf with a leaf after it holds just
\* HASH_ALLOC_SIZE, and the offsets of a bucket rise in the order of its
\* chain.
C30_TableShape ==
    (verb = "add" /\ pc # "idle") =>
        /\ \A b \in 0..(HASH_TOP_SIZE - 1) :
              LET nodes == BucketNodes(heap, b)
              IN  /\ \A i \in 1..Len(nodes) : HASH_HEAD(nodes[i].hash) = b
                  /\ \A i, j \in 1..Len(nodes) :
                        i < j => nodes[i].offset < nodes[j].offset
        /\ \A k \in 1..Len(heap) :
              /\ Len(heap[k].node) <= HASH_ALLOC_SIZE
              /\ heap[k].next \notin {NULL, WILD} =>
                     Len(heap[k].node) = HASH_ALLOC_SIZE

\* C30 happens: the table was built from an index file and has taken an
\* insert that made a second leaf for a bucket; the other bucket holds an
\* entry too.
C30_Witness ==
    /\ verb = "add"
    /\ pc = "indexed"
    /\ pool0 >= 1
    /\ heap[hash_top(0)].next \notin {NULL, WILD}
    /\ Len(heap[heap[hash_top(0)].next].node) = 1
    /\ heap[heap[hash_top(0)].next].node[1].offset = PoolBlocks - 1
    /\ Len(heap[hash_top(1)].node) = 1

====
